---- MODULE Spec2Model ----
(***************************************************************************)
(* A model of the data-access facade of file-transformation:               *)
(*   backend/database/mongodb/mongodb.go  (NewMongo, the CRUD methods,     *)
(*                                         buildOptions)                   *)
(*   backend/helper/helper.go             (ToInt)                          *)
(*                                                                         *)
(* Go values of type `any` are tagged records, strings are sequences of    *)
(* one-character strings (so that parsing and lower-casing are computed    *)
(* character by character), a float64 is a class (finite, NaN, +Inf, -Inf) *)
(* and, when finite, a number of tenths.  A pointer-valued option field is *)
(* <<>> when nil and <<v>> when set.  An error is a string, ErrNil for nil.*)
(***************************************************************************)
EXTENDS Integers, Sequences, FiniteSets, TLC

VARIABLES
    arch,       \* the platform of the build: decides float64 -> int64 out of range
    tiIn,       \* ToInt: the argument of the last call
    tiOut,      \* ToInt: what the last call returned
    boOpts,     \* buildOptions: the option map of the last call
    boOrder,    \* buildOptions: the order in which `range` visited the map
    boRes,      \* buildOptions: the two option objects returned
    boSeen,     \* buildOptions: every result returned so far for boOpts
    m,          \* the facade the program holds: the last one NewMongo returned
    ctxErr,     \* ctx.Err() of the context stored in m.ctx
    newErr,     \* the error NewMongo returned last
    db,         \* the database: collection name -> sequence of documents
    cursors,    \* number of server-side cursors opened and not yet closed
    last,       \* the last call of a facade method: arguments and results
    prevInsert  \* the call before the last one, when it was InsertOne

helperVars == <<tiIn, tiOut>>
optVars    == <<boOpts, boOrder, boRes, boSeen>>
facadeVars == <<m, ctxErr, newErr, db, cursors, last, prevInsert>>
vars       == <<arch, tiIn, tiOut, boOpts, boOrder, boRes, boSeen,
                m, ctxErr, newErr, db, cursors, last, prevInsert>>

(***************************************************************************)
(* Bounds of the model.                                                    *)
(***************************************************************************)
\* int and int64 are modelled IntBits wide (TLC's integers are 32 bits wide).
IntBits == 8
\* longest string handed to ToInt
MaxStrLen == 3
\* most entries of an option map
MaxOpts == 2
\* most documents a collection holds initially
MaxSeed == 5

MinInt == -(2^(IntBits - 1))
MaxInt == 2^(IntBits - 1) - 1

(***************************************************************************)
(* Values of type `any`.                                                   *)
(***************************************************************************)
VString(s)    == [t |-> "string", s |-> s]
VFloat(n)     == [t |-> "float64", cls |-> "finite", tenths |-> n]
VFloatNaN     == [t |-> "float64", cls |-> "nan", tenths |-> 0]
VFloatPosInf  == [t |-> "float64", cls |-> "+inf", tenths |-> 0]
VFloatNegInf  == [t |-> "float64", cls |-> "-inf", tenths |-> 0]
VInt(n)       == [t |-> "int", n |-> n]
VInt64(n)     == [t |-> "int64", n |-> n]
VBool(b)      == [t |-> "bool", b |-> b]
VNil          == [t |-> "nil"]
VSort(f, d)   == [t |-> "map", field |-> f, dir |-> d]

Arches == {"amd64", "arm64"}

(***************************************************************************)
(* helper.ToInt                                                            *)
(***************************************************************************)
Digits == <<"0", "1", "2", "3", "4", "5", "6", "7", "8", "9">>
IsDigit(c) == \E i \in 1..10 : Digits[i] = c
DigitVal(c) == (CHOOSE i \in 1..10 : Digits[i] = c) - 1

\* The digits of s read in base 10: n = n*10 + digit.
RECURSIVE ParseDigits(_, _)
ParseDigits(s, acc) ==
    IF s = <<>> THEN acc
    ELSE ParseDigits(Tail(s), acc * 10 + DigitVal(Head(s)))

\* strconv.Atoi: an optional sign, then one or more decimal digits; a value
\* outside the int range is an error.
Atoi(s) ==
    LET signed == s # <<>> /\ Head(s) \in {"-", "+"}
        body   == IF signed THEN Tail(s) ELSE s
        mag    == ParseDigits(body, 0)
        n      == IF s # <<>> /\ Head(s) = "-" THEN -mag ELSE mag
    IN  IF body = <<>> \/ \E i \in 1..Len(body) : ~IsDigit(body[i])
        THEN [n |-> 0, err |-> "syntax"]
        ELSE IF n < MinInt \/ n > MaxInt
        THEN [n |-> 0, err |-> "range"]
        ELSE [n |-> n, err |-> "nil"]

\* (mutant of TruncTenths: rounds toward minus infinity)
TruncTenthsFloor(n) == n \div 10

\* The integer part of a number of tenths, rounded toward zero.
TruncTenths(n) == IF n >= 0 THEN n \div 10 ELSE -((-n) \div 10)

\* int64(f) for a float64 f.  When the integer part of f is not an int64 the
\* Go conversion succeeds with an implementation-dependent value: the amd64
\* instruction yields the minimum integer, the arm64 instruction saturates
\* (and yields 0 for NaN).
FloatToInt64(f) ==
    LET inRange == f.cls = "finite" /\ TruncTenths(f.tenths) >= MinInt
                                    /\ TruncTenths(f.tenths) <= MaxInt
    IN  IF inRange THEN TruncTenths(f.tenths)
        ELSE IF arch = "amd64" THEN MinInt
        ELSE IF f.cls = "nan" THEN 0
        ELSE IF f.cls = "+inf" \/ (f.cls = "finite" /\ f.tenths > 0) THEN MaxInt
        ELSE MinInt

ToInt(i) ==
    IF i.t = "string"
    THEN LET r == Atoi(i.s) IN IF r.err # "nil" THEN 0 ELSE r.n
    ELSE IF i.t = "float64" THEN FloatToInt64(i)
    ELSE 0

(***************************************************************************)
(* The arguments ToInt is called with.                                     *)
(***************************************************************************)
Chars == {"0", "1", "2", "4", "9", "-", "+", "a"}
Strings == UNION {[1..n -> Chars] : n \in 0..MaxStrLen}
FloatTenths == (-(2^IntBits) * 10) .. (2^IntBits * 10)
ToIntInputs ==
    {VString(s) : s \in Strings}
    \cup {VFloat(n) : n \in FloatTenths}
    \cup {VFloatNaN, VFloatPosInf, VFloatNegInf}
    \cup {VInt(n) : n \in {0, 2, 42}} \cup {VInt64(2), VBool(TRUE), VNil}

\* Before the call: the argument is chosen, nothing is returned yet.
InitHelper == tiIn \in ToIntInputs /\ tiOut = <<>>
IdleHelper == tiIn = VNil /\ tiOut = <<>>

\* The caller evaluates helper.ToInt(tiIn).
ToIntCall ==
    /\ tiOut = <<>>
    /\ tiOut' = <<ToInt(tiIn)>>
    /\ UNCHANGED <<arch, tiIn, optVars, facadeVars>>

(***************************************************************************)
(* buildOptions                                                            *)
(***************************************************************************)
Upper == <<"A", "B", "C", "D", "E", "F", "G", "H", "I", "J", "K", "L", "M",
           "N", "O", "P", "Q", "R", "S", "T", "U", "V", "W", "X", "Y", "Z">>
Lower == <<"a", "b", "c", "d", "e", "f", "g", "h", "i", "j", "k", "l", "m",
           "n", "o", "p", "q", "r", "s", "t", "u", "v", "w", "x", "y", "z">>

\* strings.ToLower, character by character.
LowerChar(c) ==
    IF \E i \in 1..Len(Upper) : Upper[i] = c
    THEN Lower[CHOOSE i \in 1..Len(Upper) : Upper[i] = c]
    ELSE c
ToLower(k) == [i \in 1..Len(k) |-> LowerChar(k[i])]

\* The zero values of options.FindOptions and options.FindOneOptions (the
\* fields buildOptions can set; FindOneOptions has no Limit).
NoFindOpt    == [Sort |-> <<>>, Skip |-> <<>>, Limit |-> <<>>]
NoFindOneOpt == [Sort |-> <<>>, Skip |-> <<>>]
NoOptions    == [findOpt |-> NoFindOpt, findoneOpt |-> NoFindOneOpt]

\* (mutant of ApplyOpt: the key is compared as written, not lower-cased)
ApplyOptCaseSensitive(acc, k, v) ==
    IF k = <<"s", "o", "r", "t">>
    THEN [findOpt    |-> [acc.findOpt EXCEPT !.Sort = <<v>>],
          findoneOpt |-> [acc.findoneOpt EXCEPT !.Sort = <<v>>]]
    ELSE IF k = <<"l", "i", "m", "i", "t">>
    THEN [acc EXCEPT !.findOpt.Limit = <<ToInt(v)>>]
    ELSE IF k = <<"s", "k", "i", "p">>
    THEN [findOpt    |-> [acc.findOpt EXCEPT !.Skip = <<ToInt(v)>>],
          findoneOpt |-> [acc.findoneOpt EXCEPT !.Skip = <<ToInt(v)>>]]
    ELSE acc

\* The body of the loop: one entry k, v of the map.
ApplyOpt(acc, k, v) ==
    LET name == ToLower(k)
    IN  IF name = <<"s", "o", "r", "t">>
        THEN [findOpt    |-> [acc.findOpt EXCEPT !.Sort = <<v>>],
              findoneOpt |-> [acc.findoneOpt EXCEPT !.Sort = <<v>>]]
        ELSE IF name = <<"l", "i", "m", "i", "t">>
        THEN [acc EXCEPT !.findOpt.Limit = <<ToInt(v)>>]
        ELSE IF name = <<"s", "k", "i", "p">>
        THEN [findOpt    |-> [acc.findOpt EXCEPT !.Skip = <<ToInt(v)>>],
              findoneOpt |-> [acc.findoneOpt EXCEPT !.Skip = <<ToInt(v)>>]]
        ELSE acc

RECURSIVE RangeOpts(_, _, _)
RangeOpts(opts, order, acc) ==
    IF order = <<>> THEN acc
    ELSE RangeOpts(opts, Tail(order), ApplyOpt(acc, Head(order), opts[Head(order)]))

\* buildOptions(opts) when `range opts` visits the keys in the given order.
buildOptions(opts, order) == RangeOpts(opts, order, NoOptions)

\* The orders in which `range` may visit a map: Go leaves the order
\* unspecified, every permutation of the keys can occur.
Orders(opts) ==
    {o \in [1..Cardinality(DOMAIN opts) -> DOMAIN opts] :
        \A i, j \in DOMAIN o : i # j => o[i] # o[j]}

(***************************************************************************)
(* The option maps buildOptions is called with.                            *)
(***************************************************************************)
OptKeys ==
    {<<"s", "o", "r", "t">>, <<"S", "o", "r", "t">>,
     <<"s", "k", "i", "p">>, <<"S", "K", "I", "P">>,
     <<"l", "i", "m", "i", "t">>, <<"L", "i", "m", "i", "t">>,
     <<"h", "i", "n", "t">>}
OptValues ==
    {VFloat(20), VFloat(39), VInt(2), VString(<<"2">>), VString(<<"a">>),
     VSort("name", 1)}
OptMaps ==
    UNION {[ks -> OptValues] : ks \in {x \in SUBSET OptKeys : Cardinality(x) <= MaxOpts}}

\* Before the first call: the map is chosen, nothing is returned yet.
InitOpts ==
    /\ boOpts \in OptMaps
    /\ boOrder = <<>>
    /\ boRes = NoOptions
    /\ boSeen = {}
IdleOpts ==
    /\ boOpts = <<>>
    /\ boOrder = <<>>
    /\ boRes = NoOptions
    /\ boSeen = {}

\* A caller evaluates buildOptions(boOpts); `range` visits the map in some
\* order.  The results of all calls made with this map are remembered.
BuildOptionsCall ==
    /\ \E order \in Orders(boOpts) :
          /\ boOrder' = order
          /\ boRes' = buildOptions(boOpts, order)
          /\ boSeen' = boSeen \cup {buildOptions(boOpts, order)}
    /\ UNCHANGED <<arch, boOpts, helperVars, facadeVars>>

(***************************************************************************)
(* Errors, documents, filters and the database.                            *)
(***************************************************************************)
ErrNil          == "nil"
ErrCanceled     == "context canceled"
ErrDeadline     == "context deadline exceeded"
ErrConnect      == "error parsing uri"
ErrEmptyFilter  == "filter cannot be empty"
ErrNoDocuments  == "mongo: no documents in result"
ErrEmptySlice   == "must provide at least one element in input slice"
ErrDecode       == "results argument must be a pointer"
ErrBadSort      == "cannot transform type"
ErrDuplicateKey == "duplicate key"
ErrImmutableId  == "immutable field _id"

\* 30*time.Second, in seconds
ConnectTimeout == 30

Collections == {"files", "logs"}

\* A filter: a nil map and an empty map both have len 0.
NilFilter == [isNil |-> TRUE, kv |-> <<>>]
Filter(kv) == [isNil |-> FALSE, kv |-> kv]
FilterLen(filter) == Cardinality(DOMAIN filter.kv)

\* d matches the filter kv: every field of kv is a field of d with that value.
Match(d, kv) == \A f \in DOMAIN kv : f \in DOMAIN d /\ d[f] = kv[f]
\* d with the fields of data set ($set).
Merge(d, data) ==
    [f \in DOMAIN d \cup DOMAIN data |-> IF f \in DOMAIN data THEN data[f] ELSE d[f]]

SeedDocs(n) == [i \in 1..n |-> [_id |-> i, name |-> 1, size |-> 1 + (i % 2)]]
SeedDbs == {[c \in Collections |-> IF c = "files" THEN SeedDocs(n) ELSE <<>>] :
               n \in {0, MaxSeed}}

(***************************************************************************)
(* The database client, as the facade calls it with m.ctx.  A call made    *)
(* with a context whose Err() is not nil fails with that error before      *)
(* anything is sent to the server; arguments the driver rejects on its own *)
(* are rejected before the context is looked at.  Each operator yields the *)
(* error, what is returned and the database afterwards.                    *)
(***************************************************************************)
MaxId(docs) ==
    LET ids == {docs[i]._id : i \in 1..Len(docs)}
    IN  IF ids = {} THEN 0 ELSE CHOOSE x \in ids : \A y \in ids : y <= x
\* the identifier the driver generates for a document without _id
FreshId(docs) == MaxId(docs) + 1
HasId(docs, id) == \E i \in 1..Len(docs) : docs[i]._id = id
Matching(docs, kv) == SelectSeq(docs, LAMBDA d : Match(d, kv))

\* client.Ping(m.ctx, readpref.Primary())
ClientPing == [err |-> ctxErr]

\* col.InsertOne(m.ctx, data)
ClientInsertOne(coll, data) ==
    LET id == IF "_id" \in DOMAIN data THEN data._id ELSE FreshId(db[coll])
    IN  IF ctxErr # ErrNil THEN [err |-> ctxErr, ids |-> <<>>, db |-> db]
        ELSE IF HasId(db[coll], id) THEN [err |-> ErrDuplicateKey, ids |-> <<>>, db |-> db]
        ELSE [err |-> ErrNil, ids |-> <<id>>,
              db  |-> [db EXCEPT ![coll] = Append(@, Merge(data, [_id |-> id]))]]

\* An ordered bulk insert: documents are inserted in input order up to the
\* first one the server refuses.
RECURSIVE InsertAll(_, _, _)
InsertAll(docs, datas, ids) ==
    IF datas = <<>> THEN [err |-> ErrNil, ids |-> ids, docs |-> docs]
    ELSE LET data == Head(datas)
             id   == IF "_id" \in DOMAIN data THEN data._id ELSE FreshId(docs)
         IN  IF HasId(docs, id) THEN [err |-> ErrDuplicateKey, ids |-> ids, docs |-> docs]
             ELSE InsertAll(Append(docs, Merge(data, [_id |-> id])), Tail(datas),
                            Append(ids, id))

\* col.InsertMany(m.ctx, datas)
ClientInsertMany(coll, datas) ==
    IF datas = <<>> THEN [err |-> ErrEmptySlice, ids |-> <<>>, db |-> db]
    ELSE IF ctxErr # ErrNil THEN [err |-> ctxErr, ids |-> <<>>, db |-> db]
    ELSE LET r == InsertAll(db[coll], datas, <<>>)
         IN  [err |-> r.err, ids |-> r.ids, db |-> [db EXCEPT ![coll] = r.docs]]

NoUpdate == [matched |-> 0, modified |-> 0, upserted |-> 0]

\* col.UpdateOne(m.ctx, filter, bson.M{"$set": data}, upsert): the first
\* matching document gets the fields of data; without a match a document
\* made of the filter's fields and the fields of data is inserted.
ClientUpdateOne(coll, kv, data) ==
    LET docs == db[coll]
        hit  == {i \in 1..Len(docs) : Match(docs[i], kv)}
        i0   == CHOOSE i \in hit : \A j \in hit : i <= j
        made == Merge(kv, data)
        id   == IF "_id" \in DOMAIN made THEN made._id ELSE FreshId(docs)
    IN  IF ctxErr # ErrNil THEN [err |-> ctxErr, upd |-> NoUpdate, db |-> db]
        ELSE IF hit # {}
        THEN IF "_id" \in DOMAIN data /\ data._id # docs[i0]._id
             THEN [err |-> ErrImmutableId, upd |-> NoUpdate, db |-> db]
             ELSE [err |-> ErrNil,
                   upd |-> [matched |-> 1, upserted |-> 0,
                            modified |-> IF Merge(docs[i0], data) = docs[i0] THEN 0 ELSE 1],
                   db  |-> [db EXCEPT ![coll][i0] = Merge(@, data)]]
        ELSE IF HasId(docs, id) THEN [err |-> ErrDuplicateKey, upd |-> NoUpdate, db |-> db]
        ELSE [err |-> ErrNil, upd |-> [matched |-> 0, modified |-> 0, upserted |-> 1],
              db  |-> [db EXCEPT ![coll] = Append(@, Merge(made, [_id |-> id]))]]

\* Sorting by one field, ascending (dir >= 0) or descending; a document
\* without the field sorts as the smallest value.  The sort is stable.
SortKey(d, f) == IF f \in DOMAIN d THEN d[f] ELSE 0
RECURSIVE InsertSorted(_, _, _, _)
InsertSorted(sorted, d, f, dir) ==
    IF sorted = <<>> THEN <<d>>
    ELSE IF (dir >= 0 /\ SortKey(Head(sorted), f) > SortKey(d, f))
            \/ (dir < 0 /\ SortKey(Head(sorted), f) < SortKey(d, f))
    THEN <<d>> \o sorted
    ELSE <<Head(sorted)>> \o InsertSorted(Tail(sorted), d, f, dir)
RECURSIVE SortBy(_, _, _, _)
SortBy(docs, f, dir, acc) ==
    IF docs = <<>> THEN acc
    ELSE SortBy(Tail(docs), f, dir, InsertSorted(acc, Head(docs), f, dir))

\* A sort value the driver cannot turn into a document is refused.
BadSort(sort) == sort # <<>> /\ sort[1].t # "map"
Sorted(docs, sort) ==
    IF sort = <<>> THEN docs ELSE SortBy(docs, sort[1].field, sort[1].dir, <<>>)
Skipped(docs, skip) ==
    IF skip = <<>> \/ Len(docs) = 0 THEN docs
    ELSE SubSeq(docs, (IF skip[1] > Len(docs) THEN Len(docs) ELSE skip[1]) + 1, Len(docs))
\* A limit of 0 is no limit; a negative limit is its absolute value.
Limited(docs, limit) ==
    LET n == IF limit = <<>> THEN 0 ELSE IF limit[1] < 0 THEN -limit[1] ELSE limit[1]
    IN  IF n = 0 \/ n >= Len(docs) THEN docs ELSE SubSeq(docs, 1, n)
BadSkip(skip) == skip # <<>> /\ skip[1] < 0
ErrBadSkip == "skip value must be non-negative"

\* col.Find(m.ctx, filter, &findOpt): on success a cursor over the result
\* is open on the server.
ClientFind(coll, kv, findOpt) ==
    IF BadSort(findOpt.Sort) THEN [err |-> ErrBadSort, docs |-> <<>>, opened |-> 0]
    ELSE IF ctxErr # ErrNil THEN [err |-> ctxErr, docs |-> <<>>, opened |-> 0]
    ELSE IF BadSkip(findOpt.Skip) THEN [err |-> ErrBadSkip, docs |-> <<>>, opened |-> 0]
    ELSE [err |-> ErrNil, opened |-> 1,
          docs |-> Limited(Skipped(Sorted(Matching(db[coll], kv), findOpt.Sort),
                                   findOpt.Skip), findOpt.Limit)]

\* cursor.All(m.ctx, result): a result that is no pointer to a slice is
\* refused before the cursor is touched; otherwise the cursor is drained
\* and closed by All itself, also when draining fails.
CursorAll(docs, target) ==
    IF target # "ptr" THEN [err |-> ErrDecode, result |-> <<>>, closed |-> 0]
    ELSE IF ctxErr # ErrNil THEN [err |-> ctxErr, result |-> <<>>, closed |-> 1]
    ELSE [err |-> ErrNil, result |-> docs, closed |-> 1]

\* col.FindOne(m.ctx, filter, &findOneOpt).Decode(result)
ClientFindOneDecode(coll, kv, findoneOpt, target) ==
    LET docs == Skipped(Sorted(Matching(db[coll], kv), findoneOpt.Sort), findoneOpt.Skip)
    IN  IF BadSort(findoneOpt.Sort) THEN [err |-> ErrBadSort, result |-> <<>>]
        ELSE IF ctxErr # ErrNil THEN [err |-> ctxErr, result |-> <<>>]
        ELSE IF BadSkip(findoneOpt.Skip) THEN [err |-> ErrBadSkip, result |-> <<>>]
        ELSE IF docs = <<>> THEN [err |-> ErrNoDocuments, result |-> <<>>]
        ELSE IF target # "ptr" THEN [err |-> ErrDecode, result |-> <<>>]
        ELSE [err |-> ErrNil, result |-> <<docs[1]>>]

\* col.DeleteMany(m.ctx, filter)
ClientDeleteMany(coll, kv) ==
    IF ctxErr # ErrNil THEN [err |-> ctxErr, db |-> db]
    ELSE [err |-> ErrNil,
          db  |-> [db EXCEPT ![coll] = SelectSeq(@, LAMBDA d : ~Match(d, kv))]]

(***************************************************************************)
(* The facade.  Each method is an operator yielding what the call returns, *)
(* the client calls it made (in order, each with its error), and the       *)
(* database and the open cursors afterwards.                               *)
(***************************************************************************)
NoFacade == [valid |-> FALSE]
Facade   == [valid |-> TRUE]

ClientCall(fn, err) == [fn |-> fn, err |-> err]
Outcome(err, ids, result, upd, calls, dbAfter, cursorsAfter) ==
    [err |-> err, ids |-> ids, result |-> result, upd |-> upd, calls |-> calls,
     db |-> dbAfter, cursors |-> cursorsAfter]

\* NewMongo(uri, dbName): the context is created with the 30 s timeout,
\* mongo.Connect runs under it for `elapsed` seconds, and the deferred
\* cancel() runs as NewMongo returns.  Yields what NewMongo returns (the
\* facade, nil when Connect failed, and the error) and Err() of the context
\* as NewMongo has returned.
NewMongo(uriOk, elapsed) ==
    LET expired  == elapsed >= ConnectTimeout
        err      == IF ~uriOk THEN ErrConnect ELSE ErrNil
        afterRet == IF expired THEN ErrDeadline ELSE ErrCanceled
    IN  [m      |-> IF err # ErrNil THEN NoFacade ELSE Facade,
         err    |-> err,
         ctxErr |-> afterRet]

HealthCheck ==
    LET r == ClientPing
    IN  Outcome(r.err, <<>>, <<>>, NoUpdate, <<ClientCall("Ping", r.err)>>, db, cursors)

InsertOne(collectionName, data) ==
    LET r == ClientInsertOne(collectionName, data)
    IN  Outcome(r.err, r.ids, <<>>, NoUpdate, <<ClientCall("InsertOne", r.err)>>,
                r.db, cursors)

InsertMany(collectionName, datas) ==
    LET r == ClientInsertMany(collectionName, datas)
    IN  Outcome(r.err, r.ids, <<>>, NoUpdate, <<ClientCall("InsertMany", r.err)>>,
                r.db, cursors)

Upsert(collectionName, filter, data) ==
    LET r == ClientUpdateOne(collectionName, filter.kv, data)
    IN  Outcome(r.err, <<>>, <<>>, r.upd, <<ClientCall("UpdateOne", r.err)>>,
                r.db, cursors)

\* (mutant of FindOne: every failure is reported as "no documents")
FindOneNotFound(collectionName, filter, target, opts, order) ==
    LET findOneOpt == buildOptions(opts, order).findoneOpt
        r == ClientFindOneDecode(collectionName, filter.kv, findOneOpt, target)
    IN  Outcome(IF r.err # ErrNil THEN ErrNoDocuments ELSE ErrNil, <<>>, r.result,
                NoUpdate, <<ClientCall("FindOne", r.err)>>, db, cursors)

FindOne(collectionName, filter, target, opts, order) ==
    LET findOneOpt == buildOptions(opts, order).findoneOpt
        r == ClientFindOneDecode(collectionName, filter.kv, findOneOpt, target)
    IN  Outcome(r.err, <<>>, r.result, NoUpdate, <<ClientCall("FindOne", r.err)>>,
                db, cursors)

FindMany(collectionName, filter, target, opts, order) ==
    LET findOpt == buildOptions(opts, order).findOpt
        f == ClientFind(collectionName, filter.kv, findOpt)
        a == CursorAll(f.docs, target)
    IN  IF f.err # ErrNil
        THEN Outcome(f.err, <<>>, <<>>, NoUpdate, <<ClientCall("Find", f.err)>>,
                     db, cursors)
        ELSE IF a.err # ErrNil
        THEN Outcome(a.err, <<>>, <<>>, NoUpdate,
                     <<ClientCall("Find", f.err), ClientCall("All", a.err)>>,
                     db, cursors + f.opened - a.closed)
        ELSE Outcome(ErrNil, <<>>, a.result, NoUpdate,
                     <<ClientCall("Find", f.err), ClientCall("All", a.err),
                       ClientCall("Close", ErrNil)>>,
                     db, cursors)

Delete(collectionName, filter) ==
    IF FilterLen(filter) = 0
    THEN Outcome(ErrEmptyFilter, <<>>, <<>>, NoUpdate, <<>>, db, cursors)
    ELSE LET r == ClientDeleteMany(collectionName, filter.kv)
         IN  Outcome(r.err, <<>>, <<>>, NoUpdate, <<ClientCall("DeleteMany", r.err)>>,
                     r.db, cursors)

(***************************************************************************)
(* The calls a program makes.                                              *)
(***************************************************************************)
InputDocs == {[name |-> 1, size |-> 2], [_id |-> 7, name |-> 2]}
InputBatches == {<<>>, <<[name |-> 1, size |-> 2], [name |-> 2, size |-> 1]>>}
InputFilters == {NilFilter, Filter(<<>>), Filter([name |-> 1]), Filter([_id |-> 7])}
FindFilters  == InputFilters \ {NilFilter}
InputTargets == {"ptr", "value"}
InputOpts ==
    {<<>>,
     <<"l", "i", "m", "i", "t">> :> VInt(2),
     <<"l", "i", "m", "i", "t">> :> VFloat(20),
     (<<"s", "o", "r", "t">> :> VSort("size", -1)) @@ (<<"s", "k", "i", "p">> :> VFloat(10)),
     <<"S", "o", "r", "t">> :> VString(<<"a">>)}

NoCall ==
    [op |-> "none", coll |-> "", filter |-> NilFilter, datas |-> <<>>, opts |-> <<>>,
     target |-> "", err |-> ErrNil, ids |-> <<>>, result |-> <<>>, upd |-> NoUpdate,
     calls |-> <<>>, before |-> <<>>]
NoInsert == [isInsert |-> FALSE, coll |-> "", datas |-> <<>>, ids |-> <<>>]

\* The call returns: its arguments and results become `last`, the database
\* and the cursors are as the method left them.
Return(op, coll, filter, datas, opts, target, r) ==
    /\ last' = [op |-> op, coll |-> coll, filter |-> filter, datas |-> datas,
                opts |-> opts, target |-> target, err |-> r.err, ids |-> r.ids,
                result |-> r.result, upd |-> r.upd, calls |-> r.calls, before |-> db]
    /\ prevInsert' = IF last.op = "InsertOne"
                     THEN [isInsert |-> TRUE, coll |-> last.coll, datas |-> last.datas,
                           ids |-> last.ids]
                     ELSE NoInsert
    /\ db' = r.db
    /\ cursors' = r.cursors
    /\ UNCHANGED <<arch, helperVars, optVars, m, ctxErr, newErr>>

\* The program calls NewMongo and keeps the facade it returns; when NewMongo
\* returns nil and an error the program keeps the facade it had.
CallNewMongo ==
    /\ \E uriOk \in BOOLEAN :
       \E elapsed \in {0, ConnectTimeout - 1, ConnectTimeout, ConnectTimeout + 1} :
          LET r == NewMongo(uriOk, elapsed)
          IN  /\ newErr' = r.err
              /\ m' = (IF r.m.valid THEN r.m ELSE m)
              /\ ctxErr' = (IF r.m.valid THEN r.ctxErr ELSE ctxErr)
    /\ UNCHANGED <<arch, helperVars, optVars, db, cursors, last, prevInsert>>

CallHealthCheck ==
    /\ m.valid
    /\ Return("HealthCheck", "", NilFilter, <<>>, <<>>, "", HealthCheck)

CallInsertOne ==
    /\ m.valid
    /\ \E coll \in Collections, data \in InputDocs :
          Return("InsertOne", coll, NilFilter, <<data>>, <<>>, "", InsertOne(coll, data))

CallInsertMany ==
    /\ m.valid
    /\ \E coll \in Collections, datas \in InputBatches :
          Return("InsertMany", coll, NilFilter, datas, <<>>, "", InsertMany(coll, datas))

CallUpsert ==
    /\ m.valid
    /\ \E coll \in Collections, filter \in FindFilters, data \in InputDocs :
          Return("Upsert", coll, filter, <<data>>, <<>>, "", Upsert(coll, filter, data))

CallFindOne ==
    /\ m.valid
    /\ \E coll \in Collections, filter \in FindFilters, target \in InputTargets,
          opts \in InputOpts :
       \E order \in Orders(opts) :
          Return("FindOne", coll, filter, <<>>, opts, target,
                 FindOne(coll, filter, target, opts, order))

CallFindMany ==
    /\ m.valid
    /\ \E coll \in Collections, filter \in FindFilters, target \in InputTargets,
          opts \in InputOpts :
       \E order \in Orders(opts) :
          Return("FindMany", coll, filter, <<>>, opts, target,
                 FindMany(coll, filter, target, opts, order))

CallDelete ==
    /\ m.valid
    /\ \E coll \in Collections, filter \in InputFilters :
          Return("Delete", coll, filter, <<>>, <<>>, "", Delete(coll, filter))

(***************************************************************************)
(* Specifications.                                                         *)
(***************************************************************************)
IdleFacade ==
    /\ m = NoFacade /\ ctxErr = ErrNil /\ newErr = ErrNil
    /\ db = [c \in Collections |-> <<>>] /\ cursors = 0
    /\ last = NoCall /\ prevInsert = NoInsert

\* The facade: no facade yet, the database holds what other programs put
\* into it.
Init ==
    /\ arch \in Arches
    /\ IdleHelper /\ IdleOpts
    /\ m = NoFacade /\ ctxErr = ErrNil /\ newErr = ErrNil
    /\ db \in SeedDbs /\ cursors = 0
    /\ last = NoCall /\ prevInsert = NoInsert
Next ==
    \/ CallNewMongo
    \/ CallHealthCheck
    \/ CallInsertOne
    \/ CallInsertMany
    \/ CallUpsert
    \/ CallFindOne
    \/ CallFindMany
    \/ CallDelete
Spec == Init /\ [][Next]_vars

\* helper.ToInt alone
InitToInt == arch \in Arches /\ InitHelper /\ IdleOpts /\ IdleFacade
NextToInt == ToIntCall
SpecToInt == InitToInt /\ [][NextToInt]_vars

\* buildOptions alone
InitBuildOptions == arch \in Arches /\ IdleHelper /\ InitOpts /\ IdleFacade
NextBuildOptions == BuildOptionsCall
SpecBuildOptions == InitBuildOptions /\ [][NextBuildOptions]_vars

(***************************************************************************)
(* Properties of the facade (specification Spec).                          *)
(***************************************************************************)
IsLimitKey(k) == ToLower(k) = <<"l", "i", "m", "i", "t">>
CtxErrors == {ErrCanceled, ErrDeadline}
Min(a, b) == IF a <= b THEN a ELSE b

\* C1: Delete with the empty filter (nil or of zero entries) fails with the
\* "filter cannot be empty" error, calls the client not at all and leaves
\* every collection as it was; Delete with a non-empty filter succeeds.
C1_DeleteContract ==
    last.op = "Delete" =>
        IF FilterLen(last.filter) = 0
        THEN last.err = ErrEmptyFilter /\ last.calls = <<>> /\ db = last.before
        ELSE last.err = ErrNil

\* C2: once NewMongo has returned a facade, the context the methods hand to
\* the client is neither cancelled nor expired, and no client call of a
\* method fails with the context's error.
C2_ContextLive ==
    /\ m.valid => ctxErr = ErrNil
    /\ \A i \in 1..Len(last.calls) : last.calls[i].err \notin CtxErrors

\* C3: InsertOne(collection, d) followed by FindOne on the same collection
\* with the filter {_id: the inserted identifier} returns no error and the
\* document d (with its identifier).
C3_InsertThenFind ==
    LET d  == prevInsert.datas[1]
        id == IF prevInsert.ids # <<>> THEN prevInsert.ids[1] ELSE d._id
    IN  (/\ prevInsert.isInsert
         /\ prevInsert.ids # <<>> \/ "_id" \in DOMAIN d
         /\ last.op = "FindOne" /\ last.coll = prevInsert.coll
         /\ last.opts = <<>> /\ last.target = "ptr"
         /\ last.filter = Filter([_id |-> id]))
        => /\ prevInsert.ids = <<id>>
           /\ last.err = ErrNil
           /\ last.result = <<Merge(d, [_id |-> id])>>

\* The number a limit value stands for, whatever its representation.
NumberMeant(v) ==
    IF v.t \in {"int", "int64"} THEN v.n
    ELSE IF v.t = "float64" /\ v.cls = "finite" THEN v.tenths \div 10
    ELSE IF v.t = "string" THEN Atoi(v.s).n
    ELSE 0

\* C4: FindMany with an option map holding just a limit n > 0, in whatever
\* representation, over a collection with k documents matching the filter
\* returns min(n, k) documents and no error ({"limit": 2} over 5 matching
\* documents: exactly 2).
C4_LimitApplied ==
    (/\ last.op = "FindMany" /\ last.target = "ptr"
     /\ Cardinality(DOMAIN last.opts) = 1
     /\ \A k \in DOMAIN last.opts : IsLimitKey(k) /\ NumberMeant(last.opts[k]) > 0)
    => LET n == NumberMeant(last.opts[CHOOSE k \in DOMAIN last.opts : TRUE])
           k == Len(Matching(last.before[last.coll], last.filter.kv))
       IN  last.err = ErrNil /\ Len(last.result) = Min(n, k)

\* C5: no FindMany call returns with a cursor it opened still open.  (No
\* reachable state of Spec has FindMany open a cursor: col.Find is handed the
\* context NewMongo cancelled and fails, so this holds without the closing
\* code ever being exercised.)
C5_NoCursorLeft == cursors = 0

\* C6: Upsert succeeds; with a filter matching no document it creates
\* exactly one document; with a filter matching a document the number of
\* documents stays and a document differs from before only in the fields of
\* the provided document; afterwards the filter matches a document, so that
\* upserting again with the same filter creates no second one.
C6_UpsertContract ==
    last.op = "Upsert" =>
        LET before == last.before[last.coll]
            after  == db[last.coll]
            data   == last.datas[1]
        IN  /\ last.err = ErrNil
            /\ Matching(before, last.filter.kv) = <<>> => Len(after) = Len(before) + 1
            /\ Matching(before, last.filter.kv) # <<>> =>
                  /\ Len(after) = Len(before)
                  /\ \A i \in 1..Len(before) :
                        after[i] = before[i] \/ after[i] = Merge(before[i], data)
            /\ Matching(after, last.filter.kv) # <<>>

SameIgnoringCase(k, name) ==
    /\ Len(k) = Len(name)
    /\ \A i \in 1..Len(k) :
          k[i] = name[i] \/ \E j \in 1..Len(Upper) : Lower[j] = name[i] /\ Upper[j] = k[i]
KeysNamed(name) == {k \in DOMAIN boOpts : SameIgnoringCase(k, name)}

\* C7: after buildOptions(opts): the sort of both option objects is the
\* value of an entry named sort (in any case of letters), unset without such
\* an entry; the skip of both is set, to the same value, exactly if an entry
\* is named skip; the limit of the multi-document options is set exactly if
\* an entry is named limit; nothing else decides the two objects, so a limit
\* entry and an entry of any other name leave the single-document options
\* alone, and the empty map yields two unset objects.
C7_OptionTranslation ==
    boSeen # {} =>
        LET fo == boRes.findOpt
            f1 == boRes.findoneOpt
            sortKs  == KeysNamed(<<"s", "o", "r", "t">>)
            skipKs  == KeysNamed(<<"s", "k", "i", "p">>)
            limitKs == KeysNamed(<<"l", "i", "m", "i", "t">>)
        IN  /\ fo.Sort = f1.Sort
            /\ IF sortKs = {} THEN fo.Sort = <<>>
                ELSE \E k \in sortKs : fo.Sort = <<boOpts[k]>>
            /\ fo.Skip = f1.Skip
            /\ Len(fo.Skip) = (IF skipKs = {} THEN 0 ELSE 1)
            /\ Len(fo.Limit) = (IF limitKs = {} THEN 0 ELSE 1)
            /\ DOMAIN f1 = {"Sort", "Skip"}
            /\ boOpts = <<>> => boRes = NoOptions

\* C7, witness: a map with a capitalised limit key and a sort key has been
\* translated: limit set on the multi-document options, sort on both.
C7_Witness ==
    /\ boSeen # {}
    /\ DOMAIN boOpts = {<<"L", "i", "m", "i", "t">>, <<"s", "o", "r", "t">>}
    /\ boRes.findOpt.Limit # <<>>
    /\ boRes.findoneOpt.Sort # <<>>
    /\ boRes.findoneOpt.Skip = <<>>

\* C10: the result of buildOptions depends on the map alone: all calls with
\* the same map return the same two option objects, in whatever order the
\* entries are visited.
C10_Deterministic == Cardinality(boSeen) <= 1

(***************************************************************************)
(* Properties of ToInt (specification SpecToInt).                          *)
(***************************************************************************)
DigitOf(c) ==
    CASE c = "0" -> 0 [] c = "1" -> 1 [] c = "2" -> 2 [] c = "3" -> 3 [] c = "4" -> 4
      [] c = "5" -> 5 [] c = "6" -> 6 [] c = "7" -> 7 [] c = "8" -> 8 [] c = "9" -> 9
\* s is a base-10 integer: an optional sign and one or more digits.
IsNumeral(s) ==
    /\ s # <<>>
    /\ LET body == IF s[1] \in {"+", "-"} THEN Tail(s) ELSE s
       IN  body # <<>> /\ \A i \in 1..Len(body) :
               body[i] \in {"0", "1", "2", "3", "4", "5", "6", "7", "8", "9"}
RECURSIVE Magnitude(_)
Magnitude(body) ==
    IF body = <<>> THEN 0
    ELSE DigitOf(body[Len(body)]) + 10 * Magnitude(SubSeq(body, 1, Len(body) - 1))
NumeralValue(s) ==
    IF s[1] = "-" THEN -Magnitude(Tail(s))
    ELSE IF s[1] = "+" THEN Magnitude(Tail(s)) ELSE Magnitude(s)
\* the integer q with |q| <= |n/10| < |q| + 1 and the sign of n
TowardZero(n) ==
    CHOOSE q \in (-(2^IntBits) - 1) .. (2^IntBits + 1) :
        IF n >= 0 THEN q * 10 <= n /\ n < (q + 1) * 10
        ELSE (q - 1) * 10 < n /\ n <= q * 10
IsInt64(n) == MinInt <= n /\ n <= MaxInt

====
